---- MODULE Spec2Model ----
(***************************************************************************)
(* State-machine model of the timeline core of oug-t/laplace:              *)
(* TimeController (src/src/core/TimeController.ts) driven by the input     *)
(* handlers and the render loop of src/src/main.ts.                        *)
(*                                                                         *)
(* Years are fixed-point numbers: one model unit is 1/Scale of a year, so  *)
(* that every threshold of the code (0.0001, 0.001, 0.01, 0.05) is a whole *)
(* number of units.  The wall clock (performance.now()) is counted in      *)
(* units of ClockUnitMs milliseconds.                                      *)
(***************************************************************************)
EXTENDS Integers, Sequences, FiniteSets, TLC

VARIABLES
    currentYear,          \* TimeController.currentYear
    targetYear,           \* TimeController.targetYear
    lastYear,             \* TimeController.lastYear
    isTransitioning,      \* TimeController.isTransitioning
    transitionStartTime,  \* TimeController.transitionStartTime
    now,                  \* performance.now()
    lastOp,               \* the handler that ran last
    lastArg,              \* the argument the last input event passed on
    preTarget,            \* targetYear before the last input event
    lastCallTime,         \* performance.now() at the last handleScroll / jumpToYear
    inputs,               \* number of input events handled so far
    lag,                  \* update() calls since the last input event
    moonOrbitAngle,       \* SceneManager.moonOrbitAngle
    lastUpdateYear,       \* SceneManager.lastUpdateYear
    moonPosition,         \* angle from which moonGroup.position was last set
    entStart,             \* TemporalEntity.startYear of the registered entity
    entEnd,               \* TemporalEntity.endYear of the registered entity
    layerYear,            \* the year of the last TemporalLayer.update
    alpha,                \* the relevance that update passed to setTemporalAlpha
    emphasized,           \* whether the last update called entity.emphasize()
    moonDistance,         \* argument of calculateLagrangePoints
    lagrange,             \* the points calculateLagrangePoints returned
    beams,                \* BattleManager.beams
    spawned,              \* the beams spawnBeam created in the last BattleManager.update
    quiet,                \* BattleManager.update calls in a row outside every war
    drainFrom,            \* number of beams when the timeline last left a war
    battleYear,           \* argument of the last BattleManager.update
    sample                \* Math.random() of the last update, in hundredths

tcVars == <<currentYear, targetYear, lastYear, isTransitioning, transitionStartTime>>
logVars == <<lastOp, lastArg, preTarget, lastCallTime, inputs, lag>>
orbitVars == <<moonOrbitAngle, lastUpdateYear, moonPosition>>
vars == <<currentYear, targetYear, lastYear, isTransitioning, transitionStartTime,
          now, lastOp, lastArg, preTarget, lastCallTime, inputs, lag,
          moonOrbitAngle, lastUpdateYear, moonPosition,
          entStart, entEnd, layerYear, alpha, emphasized,
          moonDistance, lagrange,
          beams, spawned, quiet, drainFrom, battleYear, sample>>
layerVars == <<entStart, entEnd, layerYear, alpha, emphasized>>
lagrangeVars == <<moonDistance, lagrange>>
battleVars == <<beams, spawned, quiet, drainFrom, battleYear, sample>>
timelineVars == <<tcVars, now, logVars, orbitVars>>

----------------------------------------------------------------------------
(* Bounds of the model *)

\* input events (wheel, jumpToYear, key presses) in one run
MaxInputs == 2
\* an input event arrives while the timeline is at rest, or at most this many
\* frames after the preceding one
MaxLag == 1
\* the wall clock runs up to this many clock units
MaxNow == 3

----------------------------------------------------------------------------
(* Numbers and their fixed-point representation *)

Scale == 10 ^ 4
ClockUnitMs == 10 * 10

Abs(x) == IF x >= 0 THEN x ELSE -x
Max(a, b) == IF a >= b THEN a ELSE b
Min(a, b) == IF a <= b THEN a ELSE b
\* x * (num / den) on fixed-point numbers, rounded toward zero
MulFrac(x, num, den) ==
    IF x >= 0 THEN (x * num) \div den ELSE -(((-x) * num) \div den)

minYear == 1 * Scale
maxYear == 100 * Scale
scrollSensitivity == (5 * Scale) \div 100
lerpNum == 1
lerpDen == 10
snapEpsilon == Scale \div 1000
settleEpsilon == Scale \div 100
motionThreshold == Scale \div 10000
holdWindow == 300 \div ClockUnitMs
START_YEAR == 79 * Scale
keyStep == 5 * Scale

\* Math.max(minYear, Math.min(maxYear, y))
Clamp(y) == Max(minYear, Min(maxYear, y))

----------------------------------------------------------------------------
(* Inputs the environment may supply *)

\* e.deltaY of a wheel event
WheelDeltaY == {-100, 0, 100, 200}
\* argument of jumpToYear, in years
JumpYears == {80, 200}
\* argument of the constructor, in years
StartYears == {0, 79, 200}

----------------------------------------------------------------------------
(* TimeController *)

\* constructor(startYear)
Construct(startYear) ==
    /\ currentYear = startYear
    /\ targetYear = startYear
    /\ lastYear = startYear
    /\ isTransitioning = FALSE
    /\ transitionStartTime = 0

\* the direction handleScroll takes from deltaY
Direction(deltaY) == IF deltaY > 0 THEN 1 ELSE -1

\* mutant of ScrollTarget: the step is deltaY scaled by scrollSensitivity
ScrollTargetScaled(t, deltaY) == Clamp(t + deltaY * scrollSensitivity)

\* the new targetYear of handleScroll(deltaY)
ScrollTarget(t, deltaY) == Clamp(t + Direction(deltaY) * scrollSensitivity)

\* mutant of handleScroll: the transition is flagged only when the target moved
handleScrollLazy(deltaY) ==
    LET moved == ScrollTarget(targetYear, deltaY) # targetYear
    IN  /\ targetYear' = ScrollTarget(targetYear, deltaY)
        /\ isTransitioning' = (isTransitioning \/ moved)
        /\ transitionStartTime' = IF moved THEN now ELSE transitionStartTime
        /\ UNCHANGED <<currentYear, lastYear>>

\* handleScroll(deltaY)
handleScroll(deltaY) ==
    /\ targetYear' = ScrollTarget(targetYear, deltaY)
    /\ isTransitioning' = TRUE
    /\ transitionStartTime' = now
    /\ UNCHANGED <<currentYear, lastYear>>

\* the new targetYear of jumpToYear(year)
JumpTarget(year) == Clamp(year)

\* mutant of jumpToYear: the jump also moves currentYear to the target at once
jumpToYearSnap(year) ==
    /\ targetYear' = JumpTarget(year)
    /\ currentYear' = JumpTarget(year)
    /\ isTransitioning' = TRUE
    /\ transitionStartTime' = now
    /\ UNCHANGED lastYear

\* mutant of jumpToYear: a jump issued during a transition keeps the old target
jumpToYearQueued(year) ==
    /\ targetYear' = IF isTransitioning THEN targetYear ELSE JumpTarget(year)
    /\ isTransitioning' = TRUE
    /\ transitionStartTime' = now
    /\ UNCHANGED <<currentYear, lastYear>>

\* jumpToYear(year)
jumpToYear(year) ==
    /\ targetYear' = JumpTarget(year)
    /\ isTransitioning' = TRUE
    /\ transitionStartTime' = now
    /\ UNCHANGED <<currentYear, lastYear>>

\* mutant of Eased: the step is 11/10 of the remaining distance
EasedOvershoot(c, t) ==
    LET yearDiff == t - c
        stepped == c + MulFrac(yearDiff, 11, 10)
    IN  IF Abs(yearDiff) < snapEpsilon THEN t ELSE stepped

\* currentYear after the easing step and the snap of update()
Eased(c, t) ==
    LET yearDiff == t - c
        stepped == c + MulFrac(yearDiff, lerpNum, lerpDen)
    IN  IF Abs(yearDiff) < snapEpsilon THEN t ELSE stepped

\* mutant of Settled: the flag is cleared only once currentYear is the target
SettledOnSnap(flag, c, t) ==
    IF flag /\ c = t THEN FALSE ELSE flag

\* isTransitioning after update(), from the eased (not yet clamped) currentYear
Settled(flag, c, t) ==
    IF flag /\ Abs(c - t) < settleEpsilon THEN FALSE ELSE flag

\* mutant of update: the final clamp of currentYear is missing
updateNoClamp ==
    LET eased == Eased(currentYear, targetYear)
    IN  /\ lastYear' = currentYear
        /\ isTransitioning' = Settled(isTransitioning, eased, targetYear)
        /\ currentYear' = eased
        /\ UNCHANGED <<targetYear, transitionStartTime>>

\* mutant of update: lastYear is not saved
updateStaleLast ==
    LET eased == Eased(currentYear, targetYear)
    IN  /\ isTransitioning' = Settled(isTransitioning, eased, targetYear)
        /\ currentYear' = Clamp(eased)
        /\ UNCHANGED <<lastYear, targetYear, transitionStartTime>>

\* update()
update ==
    LET eased == Eased(currentYear, targetYear)
    IN  /\ lastYear' = currentYear
        /\ isTransitioning' = Settled(isTransitioning, eased, targetYear)
        /\ currentYear' = Clamp(eased)
        /\ UNCHANGED <<targetYear, transitionStartTime>>

\* isMoving()
isMoving == Abs(currentYear - lastYear) > motionThreshold

\* mutant of inTransition: the hold window includes its end
inTransitionInclusive ==
    isTransitioning \/ (now - transitionStartTime <= holdWindow)

\* inTransition()
inTransition == isTransitioning \/ (now - transitionStartTime < holdWindow)

\* getVelocity()
getVelocity == currentYear - lastYear

----------------------------------------------------------------------------
(* SceneManager: the moon's orbit *)

\* Angles are fixed-point too: the full circle 2 * Math.PI is FullCircle
\* units, so that orbitSpeedPerYear = 2 * Math.PI / 100 is one unit of angle
\* per unit of year.
FullCircle == 100 * Scale

\* the JavaScript remainder a % m, m > 0: the sign is that of a
JsRem(a, m) == IF a >= 0 THEN a % m ELSE -((-a) % m)

\* SceneManager constructor: the orbit fields and the moon's first position
SceneConstruct ==
    /\ moonOrbitAngle = 0
    /\ lastUpdateYear = 79 * Scale
    /\ moonPosition = 0

\* moonOrbitAngle after (moonOrbitAngle + yearDelta * orbitSpeedPerYear) % (2 pi)
AdvancedAngle(angle, yearDelta) == JsRem(angle + yearDelta, FullCircle)

\* mutant of updateMoonOrbit: the orbit also creeps forward on every frame
updateMoonOrbitDrift(year, moving, velocity) ==
    LET yearDelta == year - lastUpdateYear
        angle == AdvancedAngle(moonOrbitAngle, yearDelta + motionThreshold)
    IN  /\ moonOrbitAngle' = angle
        /\ moonPosition' = angle
        /\ lastUpdateYear' = year

\* updateTemporalSystems(currentYear, timeController), the moon's orbit:
\* year, moving and velocity are currentYear, isMoving() and getVelocity()
\* as the frame's update() left them
updateMoonOrbit(year, moving, velocity) ==
    LET yearDelta == year - lastUpdateYear
        angle == AdvancedAngle(moonOrbitAngle, yearDelta)
    IN  /\ IF moving /\ Abs(velocity) > motionThreshold
           THEN /\ moonOrbitAngle' = angle
                /\ moonPosition' = angle
           ELSE UNCHANGED <<moonOrbitAngle, moonPosition>>
        /\ lastUpdateYear' = year

----------------------------------------------------------------------------
(* TemporalLayer *)

\* Rational numbers <<n, d>>, d > 0, for the relevance values
Rat(n, d) == IF d < 0 THEN <<-n, -d>> ELSE <<n, d>>
RZero == <<0, 1>>
ROne == <<1, 1>>
RMul(a, b) == Rat(a[1] * b[1], a[2] * b[2])
RSub(a, b) == Rat(a[1] * b[2] - b[1] * a[2], a[2] * b[2])
RLess(a, b) == a[1] * b[2] < b[1] * a[2]
REq(a, b) == a[1] * b[2] = b[1] * a[2]
RLeq(a, b) == RLess(a, b) \/ REq(a, b)

\* Years of the layer are counted in tenths of a year
LayerScale == 5 * 2
fadeRange == LayerScale \div 2
\* update emphasizes an entity whose relevance is positive and under 0.1
emphasisLimit == <<1, 10>>

\* THREE.MathUtils.smoothstep(x, min, max) of three.js: 0 up to min, 1 from
\* max on, and t * t * (3 - 2 * t) with t = (x - min) / (max - min) between
smoothstep(x, min, max) ==
    IF x <= min THEN RZero
    ELSE IF x >= max THEN ROne
    ELSE LET n == x - min
             d == max - min
         IN  Rat(n * n * (3 * d - 2 * n), d * d * d)

\* mutant of calculateRelevance: the two factors are subtracted, not multiplied
calculateRelevanceDifference(startYear, endYear, year) ==
    LET afterStart == smoothstep(startYear - fadeRange, startYear + fadeRange, year)
        beforeEnd ==
            RSub(ROne, smoothstep(endYear - fadeRange, endYear + fadeRange, year))
    IN  RSub(afterStart, beforeEnd)

\* mutant of calculateRelevance: smoothstep is given the year first and the
\* two edges after it
calculateRelevanceYearFirst(startYear, endYear, year) ==
    LET afterStart == smoothstep(year, startYear - fadeRange, startYear + fadeRange)
        beforeEnd ==
            RSub(ROne, smoothstep(year, endYear - fadeRange, endYear + fadeRange))
    IN  RMul(afterStart, beforeEnd)

\* calculateRelevance(entity, year): the arguments reach smoothstep in the
\* order the code writes them, (edge - fadeRange, edge + fadeRange, year)
calculateRelevance(startYear, endYear, year) ==
    LET afterStart == smoothstep(startYear - fadeRange, startYear + fadeRange, year)
        beforeEnd ==
            RSub(ROne, smoothstep(endYear - fadeRange, endYear + fadeRange, year))
    IN  RMul(afterStart, beforeEnd)

\* no entity registered, no update made
LayerEmpty ==
    /\ entStart = 0
    /\ entEnd = 0
    /\ layerYear = -1
    /\ alpha = RZero
    /\ emphasized = FALSE

\* validity windows of the registered entity, in tenths of a year
EntityStarts == {500, 550, 600}
EntityEnds == {500, 540, 600}
\* the years update is called with, in tenths of a year
MinLayerYear == 48 * LayerScale
MaxLayerYear == 620
LayerYears == MinLayerYear..MaxLayerYear

\* register(entity)
LayerRegistered ==
    /\ entStart \in EntityStarts
    /\ entEnd \in EntityEnds
    /\ layerYear = -1
    /\ alpha = RZero
    /\ emphasized = FALSE

\* mutant of layerUpdate: an entity of relevance 0 is emphasized as well
layerUpdateEager ==
    \E year \in LayerYears :
        /\ layerYear' = year
        /\ alpha' = calculateRelevance(entStart, entEnd, year)
        /\ emphasized' = RLess(alpha', emphasisLimit)
        /\ UNCHANGED <<entStart, entEnd>>
        /\ UNCHANGED <<timelineVars, lagrangeVars, battleVars>>

\* update(currentYear), for the registered entity
layerUpdate ==
    \E year \in LayerYears :
        /\ layerYear' = year
        /\ alpha' = calculateRelevance(entStart, entEnd, year)
        /\ emphasized' = (RLess(RZero, alpha') /\ RLess(alpha', emphasisLimit))
        /\ UNCHANGED <<entStart, entEnd>>
        /\ UNCHANGED <<timelineVars, lagrangeVars, battleVars>>

----------------------------------------------------------------------------
(* calculateLagrangePoints *)

\* Coordinates are counted in thousandths of a scene unit
LagScale == 10 ^ 3
\* mu = 0.01215 = muNum / muDen
muNum == 1215
muDen == 10 ^ 5

\* the largest c with c^3 <= n
CubeRoot(n) == CHOOSE c \in 0..LagScale : c ^ 3 <= n /\ (c + 1) ^ 3 > n
\* the largest r with r^2 <= n
SquareRoot(n) == CHOOSE r \in 0..LagScale : r ^ 2 <= n /\ (r + 1) ^ 2 > n

\* Math.pow(mu / 3, 1 / 3), in thousandths
cbrtMuThird == CubeRoot((muNum * (LagScale ^ 3 \div muDen)) \div 3)
\* (5 / 12) * mu, in thousandths
l3Excess == (5 * muNum * LagScale) \div (12 * muDen)
\* Math.cos(Math.PI / 3) and Math.sin(Math.PI / 3), in thousandths
cos60 == LagScale \div 2
sin60 == SquareRoot((3 * LagScale ^ 2) \div 4)

Point(x, y, z) == [x |-> x, y |-> y, z |-> z]

\* mutant of calculateLagrangePoints: L5 is given the z of L4
calculateLagrangePointsSameSide(d) ==
    [L1 |-> Point(d * (LagScale - cbrtMuThird), 0, 0),
     L2 |-> Point(d * (LagScale + cbrtMuThird), 0, 0),
     L3 |-> Point(-(d * (LagScale + l3Excess)), 0, 0),
     L4 |-> Point(d * cos60, 0, d * sin60),
     L5 |-> Point(d * cos60, 0, d * sin60)]

\* calculateLagrangePoints(moonDistance)
calculateLagrangePoints(d) ==
    [L1 |-> Point(d * (LagScale - cbrtMuThird), 0, 0),
     L2 |-> Point(d * (LagScale + cbrtMuThird), 0, 0),
     L3 |-> Point(-(d * (LagScale + l3Excess)), 0, 0),
     L4 |-> Point(d * cos60, 0, d * sin60),
     L5 |-> Point(d * cos60, 0, (-d) * sin60)]

\* generateEarthSphere: const moonOrbitRadius = 15
moonOrbitRadius == 15
\* the largest distance calculateLagrangePoints is called with
MaxMoonDistance == 120

\* the data set as the module builds it on load
DataLoaded ==
    /\ moonDistance = moonOrbitRadius
    /\ lagrange = calculateLagrangePoints(moonOrbitRadius)

\* a call of calculateLagrangePoints with any positive distance
lagrangeCall ==
    \E d \in 1..MaxMoonDistance :
        /\ moonDistance' = d
        /\ lagrange' = calculateLagrangePoints(d)
        /\ UNCHANGED <<timelineVars, layerVars, battleVars>>

----------------------------------------------------------------------------
(* BattleManager *)

\* Opacities and random samples are counted in hundredths
initialOpacity == 80
opacityStep == 5
spawnChance == 80
\* number of updates a beam lives
FadeTicks == initialOpacity \div opacityStep
\* bound on the number of beams alive at once
MaxBeams == 2

WARS ==
    <<[name |-> "One Year War", start |-> 79 * Scale, end |-> 80 * Scale,
       color |-> "ff3333"],
      [name |-> "Gryps Conflict", start |-> 87 * Scale, end |-> 88 * Scale,
       color |-> "33ff33"],
      [name |-> "Neo Zeon War", start |-> 88 * Scale, end |-> 89 * Scale,
       color |-> "ffff33"]>>

InWar(w, year) == year >= w.start /\ year <= w.end
\* mutant of activeWar: the last war that holds the year is taken
activeWarLast(year) ==
    IF \E i \in 1..Len(WARS) : InWar(WARS[i], year)
    THEN CHOOSE i \in 1..Len(WARS) :
             /\ InWar(WARS[i], year)
             /\ \A j \in (i + 1)..Len(WARS) : ~InWar(WARS[j], year)
    ELSE 0

\* WARS.find(...): the index of the first war that holds the year, 0 for none
activeWar(year) ==
    IF \E i \in 1..Len(WARS) : InWar(WARS[i], year)
    THEN CHOOSE i \in 1..Len(WARS) :
             /\ InWar(WARS[i], year)
             /\ \A j \in 1..(i - 1) : ~InWar(WARS[j], year)
    ELSE 0

\* mutant of ShouldSpawn: a sample of exactly 0.8 spawns as well
ShouldSpawnInclusive(s) == s >= spawnChance
\* Math.random() > 0.8
ShouldSpawn(s) == s > spawnChance

\* mutant of NewBeam: the line starts fully opaque
NewBeamOpaque(color) == [opacity |-> initialOpacity + 4 * opacityStep, color |-> color]

\* the line spawnBeam creates
NewBeam(color) == [opacity |-> initialOpacity, color |-> color]

\* beams.splice(i, 1)
Splice(bs, i) == SubSeq(bs, 1, i - 1) \o SubSeq(bs, i + 1, Len(bs))
Faded(bs, i) == [bs EXCEPT ![i].opacity = @ - opacityStep]

\* mutant of cleanup: the loop runs upward, so the beam after a removed one
\* is skipped
RECURSIVE cleanupUpFrom(_, _)
cleanupUpFrom(bs, i) ==
    IF i > Len(bs) THEN bs
    ELSE LET faded == Faded(bs, i)
         IN  cleanupUpFrom(IF faded[i].opacity <= 0 THEN Splice(faded, i)
                           ELSE faded, i + 1)
cleanupUp(bs) == cleanupUpFrom(bs, 1)

\* for (i = beams.length - 1; i >= 0; i--) { opacity -= 0.05; if (opacity <= 0) splice }
RECURSIVE cleanupFrom(_, _)
cleanupFrom(bs, i) ==
    IF i < 1 THEN bs
    ELSE LET faded == Faded(bs, i)
         IN  cleanupFrom(IF faded[i].opacity <= 0 THEN Splice(faded, i)
                         ELSE faded, i - 1)
cleanup(bs) == cleanupFrom(bs, Len(bs))

\* new BattleManager()
BattleConstruct ==
    /\ beams = <<>>
    /\ spawned = <<>>
    /\ quiet = 0
    /\ drainFrom = 0
    /\ battleYear = -1
    /\ sample = 0

\* bookkeeping of one update: the run of updates outside every war
Bookkeeping(year, s) ==
    /\ battleYear' = year
    /\ sample' = s
    /\ quiet' = IF activeWar(year) # 0 THEN 0 ELSE Min(quiet + 1, FadeTicks + 1)
    /\ drainFrom' = IF activeWar(year) # 0 THEN 0
                    ELSE IF quiet = 0 THEN Len(beams) ELSE drainFrom

\* mutant of battleUpdate: beams fade only while a war is live
battleUpdatePaused(year, s) ==
    LET war == activeWar(year)
        created == IF war # 0 /\ ShouldSpawn(s)
                   THEN <<NewBeam(WARS[war].color)>> ELSE <<>>
    IN  /\ spawned' = created
        /\ beams' = IF war # 0 THEN cleanup(beams \o created) ELSE beams
        /\ Bookkeeping(year, s)

\* update(currentYear), with s the value Math.random() returns
battleUpdate(year, s) ==
    LET war == activeWar(year)
        created == IF war # 0 /\ ShouldSpawn(s)
                   THEN <<NewBeam(WARS[war].color)>> ELSE <<>>
    IN  /\ spawned' = created
        /\ beams' = cleanup(beams \o created)
        /\ Bookkeeping(year, s)

\* the years update is called with: before, at the two ends of and after the
\* One Year War, the year two wars share, the end of the last war
BattleYears ==
    {79 * Scale - 1, 79 * Scale, 80 * Scale, 80 * Scale + 1, 88 * Scale,
     89 * Scale}
\* the values Math.random() returns, in hundredths
Samples == {50, 80, 81}

\* the years of a timeline that stays inside the One Year War
WarYears == {79 * Scale, 80 * Scale}

\* one call of update by the render loop while the timeline stays in a war;
\* the number of beams is left to the code
battleSiege ==
    \E year \in WarYears, s \in Samples :
        /\ battleUpdate(year, s)
        /\ UNCHANGED <<timelineVars, layerVars, lagrangeVars>>

\* one call of update by the render loop
battleTick ==
    \E year \in BattleYears, s \in Samples :
        /\ (activeWar(year) # 0 /\ ShouldSpawn(s)) => Len(beams) < MaxBeams
        /\ battleUpdate(year, s)
        /\ UNCHANGED <<timelineVars, layerVars, lagrangeVars>>

----------------------------------------------------------------------------
(* main.ts: event handlers and render loop *)

\* an input event may arrive now
AtRest == currentYear = lastYear
InputAllowed == inputs < MaxInputs /\ (lag <= MaxLag \/ AtRest)

Input(op, arg) ==
    /\ InputAllowed
    /\ inputs' = inputs + 1
    /\ lag' = 0
    /\ lastOp' = op
    /\ lastArg' = arg
    /\ preTarget' = targetYear
    /\ lastCallTime' = IF op \in {"scroll", "jump"} THEN now ELSE lastCallTime
    /\ UNCHANGED <<now, orbitVars, layerVars, lagrangeVars, battleVars>>

\* handleWheel(e)
handleWheel ==
    \E deltaY \in WheelDeltaY, shiftKey \in BOOLEAN :
        IF shiftKey
        THEN /\ handleScroll(deltaY \div 100)
             /\ Input("scroll", deltaY \div 100)
        ELSE /\ UNCHANGED tcVars
             /\ Input("wheel", deltaY)

\* a call of the public method jumpToYear
callJump ==
    \E year \in JumpYears :
        /\ jumpToYear(year * Scale)
        /\ Input("jump", year * Scale)

\* handleKeyDown(e), e.key = 'm' | 'M'
keyM ==
    /\ targetYear' = targetYear + keyStep
    /\ UNCHANGED <<currentYear, lastYear, isTransitioning, transitionStartTime>>
    /\ Input("keyM", 0)

\* handleKeyDown(e), e.key = 'n' | 'N'
keyN ==
    /\ targetYear' = targetYear - keyStep
    /\ UNCHANGED <<currentYear, lastYear, isTransitioning, transitionStartTime>>
    /\ Input("keyN", 0)

\* handleKeyDown(e), e.key = 'r' | 'R'
keyR ==
    /\ targetYear' = START_YEAR
    /\ UNCHANGED <<currentYear, lastYear, isTransitioning, transitionStartTime>>
    /\ Input("keyR", 0)

\* mutant of render: the scene reads the timeline as it was before update()
renderStale ==
    updateMoonOrbit(currentYear, isMoving, getVelocity)

\* sceneMgr.render(timeCtrl), called after timeCtrl.update() in the frame.
\* Its call battleMgr.update(currentYear) reads the year and nothing else of
\* the timeline and writes only the beams: it is the action battleTick of
\* SpecBattle, where the year ranges over years inside and outside the wars.
render ==
    updateMoonOrbit(currentYear', isMoving', getVelocity')

\* animate(): one frame of the render loop
animate ==
    /\ update
    /\ render
    /\ lastOp' = "update"
    /\ lag' = IF lag <= MaxLag THEN lag + 1 ELSE lag
    /\ UNCHANGED <<now, inputs, lastArg, preTarget, lastCallTime>>
    /\ UNCHANGED <<layerVars, lagrangeVars, battleVars>>

\* bounds of the runs in which the frame holds the BattleManager: one input
\* event and one beam fewer than elsewhere
MaxFrameInputs == MaxInputs - 1
MaxFrameBeams == MaxBeams - 1

\* sceneMgr.render(timeCtrl) with its call battleMgr.update(currentYear):
\* the year is read once and handed to the orbit and to the BattleManager;
\* s is the value Math.random() returns
renderScene(s) ==
    /\ render
    /\ (activeWar(currentYear') # 0 /\ ShouldSpawn(s)) => Len(beams) < MaxFrameBeams
    /\ battleUpdate(currentYear', s)

\* animate() with the whole of render: one frame of the render loop
frame ==
    /\ update
    /\ \E s \in Samples : renderScene(s)
    /\ lastOp' = "update"
    /\ lag' = IF lag <= MaxLag THEN lag + 1 ELSE lag
    /\ UNCHANGED <<now, inputs, lastArg, preTarget, lastCallTime>>
    /\ UNCHANGED <<layerVars, lagrangeVars>>

\* the wall clock advances by one clock unit
clockTick ==
    /\ now < MaxNow
    /\ now' = now + 1
    /\ UNCHANGED <<tcVars, logVars, orbitVars, layerVars, lagrangeVars, battleVars>>

----------------------------------------------------------------------------
(* Specifications *)

Env0 ==
    /\ now = 0
    /\ lastOp = "init"
    /\ lastArg = 0
    /\ preTarget = targetYear
    /\ lastCallTime = -1
    /\ inputs = 0
    /\ lag = 0

\* what main.ts builds besides the TimeController: the scene with its moon
\* and BattleManager; no TemporalLayer entity is registered
SceneInit == SceneConstruct /\ BattleConstruct /\ LayerEmpty /\ DataLoaded

\* main.ts: new TimeController(CONFIG.START_YEAR), new SceneManager(appContainer)
Init == Construct(START_YEAR) /\ SceneInit /\ Env0

\* the constructor called with any start year
InitAnyStart ==
    (\E y \in StartYears : Construct(y * Scale)) /\ SceneInit /\ Env0

Next ==
    \/ handleWheel
    \/ callJump
    \/ keyM
    \/ keyN
    \/ keyR
    \/ animate

NextClock == Next \/ clockTick

Spec == Init /\ [][Next]_vars
SpecAnyStart == InitAnyStart /\ [][Next]_vars
SpecClock == Init /\ [][NextClock]_vars
\* requestAnimationFrame(animate) reschedules the render loop in every frame
SpecLive == Init /\ [][Next]_vars /\ WF_vars(animate)

\* the render loop with the BattleManager in the frame
NextFrame ==
    \/ (inputs < MaxFrameInputs /\ handleWheel)
    \/ (inputs < MaxFrameInputs /\ keyM)
    \/ frame
SpecFrame == Init /\ [][NextFrame]_vars

\* BattleManager.update called again and again inside a war
NextSiege == battleSiege
SpecSiege == Init /\ [][NextSiege]_vars

\* TemporalLayer with one registered entity, updated at any year
InitLayer ==
    /\ Construct(START_YEAR) /\ Env0
    /\ SceneConstruct /\ BattleConstruct /\ DataLoaded
    /\ LayerRegistered
NextLayer == layerUpdate
SpecLayer == InitLayer /\ [][NextLayer]_vars

\* calculateLagrangePoints called with any distance
NextLagrange == lagrangeCall
SpecLagrange == Init /\ [][NextLagrange]_vars

\* BattleManager.update called with any year and any random sample
NextBattle == battleTick
SpecBattle == Init /\ [][NextBattle]_vars

----------------------------------------------------------------------------
(* Claims *)

InRange(y) == minYear <= y /\ y <= maxYear
WasScroll == lastOp = "scroll"
WasJump == lastOp = "jump"
WasUpdate == lastOp = "update"

\* C1: after every update() call minYear <= currentYear <= maxYear, whatever
\* targetYear is and whatever start year the constructor was given.
C1_CurrentInRangeAfterUpdate == WasUpdate => InRange(currentYear)

\* C1 witness: an update() that started above maxYear (constructed out of
\* range) and ended on the bound.
C1_Witness == WasUpdate /\ lastYear > maxYear /\ currentYear = maxYear

\* C2: in every reachable state minYear <= targetYear <= maxYear.
C2_TargetInRange == InRange(targetYear)

\* C3: with update() called again and again and targetYear left alone, the
\* distance |targetYear - currentYear| never increases from one call to the
\* next, and currentYear eventually equals targetYear and stays equal.
C3_Converges ==
    /\ [][animate =>
            Abs(targetYear - currentYear') <= Abs(targetYear - currentYear)]_vars
    /\ <>[](currentYear = targetYear)

C5_ScrollProportional ==
    (WasScroll /\ lastArg # 0) =>
        targetYear = Clamp(preTarget + lastArg * scrollSensitivity)

\* C5 (amended): handleScroll(delta), delta # 0, moves targetYear by exactly
\* scrollSensitivity in the direction of delta's sign, whatever |delta| is,
\* and clamps the result.
C5_ScrollUnitStep ==
    (WasScroll /\ lastArg # 0) =>
        targetYear =
            Max(minYear, Min(maxYear,
                IF lastArg > 0 THEN preTarget + scrollSensitivity
                               ELSE preTarget - scrollSensitivity))

\* C5 witness: a scroll of magnitude 2 that moved the target one step.
C5_Witness ==
    WasScroll /\ lastArg = 2 /\ targetYear = preTarget + scrollSensitivity

\* C6: jumpToYear(year) leaves currentYear and lastYear as they were and sets
\* targetYear to clamp(year) and the transition flag, also in mid-transition.
C6_JumpFrame ==
    [][callJump =>
        /\ currentYear' = currentYear
        /\ lastYear' = lastYear
        /\ targetYear' = Max(minYear, Min(maxYear, lastArg'))
        /\ isTransitioning']_vars

\* C6 witness: a jump made while an earlier transition was still moving.
C6_Witness ==
    /\ WasJump
    /\ inputs = 2
    /\ isMoving
    /\ currentYear # preTarget
    /\ targetYear # preTarget

\* C7: no transition queue: a jumpToYear call sets targetYear to clamp(year)
\* of that call whatever was in flight, and the update() that follows moves
\* currentYear toward the target in force, never toward a superseded one.
C7_NewestTargetWins ==
    [][/\ callJump => targetYear' = Max(minYear, Min(maxYear, lastArg'))
       /\ animate =>
            LET goal == Max(minYear, Min(maxYear, targetYear))
            IN  /\ goal > currentYear => (currentYear < currentYear' /\ currentYear' <= goal)
                /\ goal < currentYear => (goal <= currentYear' /\ currentYear' < currentYear)
                /\ goal = currentYear => currentYear' = currentYear]_vars

\* C7 witness: the first update() after a second input that turned the
\* movement around: currentYear had been rising toward the first target and
\* now falls toward the second.
C7_Witness ==
    /\ WasUpdate
    /\ inputs = 2
    /\ lag = 1
    /\ preTarget > lastYear
    /\ targetYear < lastYear
    /\ currentYear < lastYear

\* C8: every handleScroll and jumpToYear call leaves isTransitioning = TRUE
\* and transitionStartTime = the wall-clock time of the call, also when the
\* clamped targetYear is the same as before.
C8_CallFlagsTransition ==
    [][(inputs' = inputs + 1 /\ lastOp' \in {"scroll", "jump"}) =>
        (isTransitioning' /\ transitionStartTime' = now)]_vars

\* C8 witness: a scroll or jump at a bound, at a wall-clock time after 0,
\* after the earlier transition had settled: targetYear did not change.
C8_Witness ==
    /\ (WasScroll \/ WasJump)
    /\ inputs = 2
    /\ targetYear = preTarget
    /\ targetYear = maxYear
    /\ currentYear = targetYear
    /\ now > 0
    /\ transitionStartTime = now
    /\ isTransitioning

\* C9: after a handleScroll or jumpToYear call at wall-clock time T,
\* inTransition() is true at every time in [T, T + 300 ms), whatever update()
\* has done since, and false at every time >= T + 300 ms at which
\* isTransitioning is clear.
C9_HoldWindow ==
    lastCallTime >= 0 =>
        /\ (now - lastCallTime) * ClockUnitMs < 300 => inTransition
        /\ ((now - lastCallTime) * ClockUnitMs >= 300 /\ ~isTransitioning)
              => ~inTransition

\* C9 witness: inside the hold window, with currentYear already snapped to
\* the target and the flag cleared by update().
C9_Witness ==
    /\ lastCallTime >= 0
    /\ now > lastCallTime
    /\ (now - lastCallTime) * ClockUnitMs < 300
    /\ WasUpdate
    /\ currentYear = targetYear
    /\ ~isTransitioning
    /\ inTransition

----------------------------------------------------------------------------
(* TemporalLayer: relevance *)

WasLayerUpdate == layerYear # -1
\* the window is longer than the two fades and the year lies between them
InPlateau ==
    /\ entEnd - entStart > 2 * fadeRange
    /\ entStart + fadeRange <= layerYear
    /\ layerYear <= entEnd - fadeRange
OutsideWindow ==
    layerYear <= entStart - fadeRange \/ layerYear >= entEnd + fadeRange
StrictlyInside ==
    /\ entStart < entEnd
    /\ entStart - fadeRange < layerYear
    /\ layerYear < entEnd + fadeRange

\* C11: for every validity window and every year, the relevance that update
\* computes lies in [0, 1]
C11_RelevanceInUnitInterval ==
    WasLayerUpdate => RLeq(RZero, alpha) /\ RLeq(alpha, ROne)
C11_Witness == WasLayerUpdate /\ InPlateau

\* C12: for a window longer than twice the fade range, the relevance is 1 at
\* every year from start + fadeRange to end - fadeRange
C12_PlateauIsOne == (WasLayerUpdate /\ InPlateau) => REq(alpha, ROne)

\* C13: the relevance is 0 at every year up to start - fadeRange and from
\* end + fadeRange on, and strictly positive at every year strictly between
\* the two for a non-degenerate window
C13_ZeroOutsidePositiveInside ==
    WasLayerUpdate =>
        /\ OutsideWindow => REq(alpha, RZero)
        /\ StrictlyInside => RLess(RZero, alpha)

\* C14: for a degenerate window (end <= start) the relevance is 0 at every
\* year, the year start = end included
C14_DegenerateIsZero ==
    (WasLayerUpdate /\ entEnd <= entStart) => REq(alpha, RZero)
C14_Witness ==
    WasLayerUpdate /\ entEnd = entStart /\ layerYear = entStart

----------------------------------------------------------------------------
(* SceneManager: the moon's orbit *)

\* C15: a frame after which isMoving() is false leaves the moon's orbit angle
\* and position as they were, and so does the passing of wall-clock time
C15_StillFrameKeepsOrbit ==
    [][((animate /\ ~isMoving') \/ clockTick)
          => UNCHANGED <<moonOrbitAngle, moonPosition>>]_vars
C15_Witness ==
    /\ WasUpdate
    /\ ~isMoving
    /\ lastYear = currentYear
    /\ moonOrbitAngle # 0
    /\ now > 0

\* C16: after every frame the moon's orbit angle is at least 0 and less than
\* a full circle, whichever way the timeline moves
C16_AngleWrapped == 0 <= moonOrbitAngle /\ moonOrbitAngle < FullCircle

----------------------------------------------------------------------------
(* calculateLagrangePoints: geometry *)

\* C17: for every positive moon distance, L1 lies strictly between the
\* primary and the moon, L2 beyond the moon, L3 on the negative x axis, all
\* five points have y = 0, and L4 and L5 mirror each other across the x axis
C17_LagrangeGeometry ==
    LET d == moonDistance * LagScale
        p == lagrange
    IN  /\ 0 < p.L1.x /\ p.L1.x < d /\ d < p.L2.x
        /\ p.L3.x < 0
        /\ \A pt \in {p.L1, p.L2, p.L3, p.L4, p.L5} : pt.y = 0
        /\ p.L4.x = p.L5.x
        /\ p.L4.z = -p.L5.z
C17_Witness ==
    /\ moonDistance = 72
    /\ lagrange.L1.x > 60 * LagScale
    /\ lagrange.L4.z > 0

----------------------------------------------------------------------------
(* BattleManager: beams *)

Alive(b) == b.opacity > 0
FadedOnce(bs) == [i \in 1..Len(bs) |-> [bs[i] EXCEPT !.opacity = @ - opacityStep]]

\* C18: one update spawns exactly one beam if a war holds the year and the
\* random sample is strictly above 0.8, and none otherwise; the new beam has
\* the colour of that war and the opacity 0.8
C18_SpawnRule ==
    [][LET war == activeWar(battleYear')
       IN  IF war # 0 /\ sample' > spawnChance
           THEN /\ spawned' = <<[opacity |-> initialOpacity,
                                color |-> WARS[war].color]>>
                /\ Len(beams') <= Len(beams) + 1
                /\ Len(beams') >= 1
                /\ beams'[Len(beams')].color = WARS[war].color
           ELSE /\ spawned' = <<>>
                /\ Len(beams') <= Len(beams)]_vars
C18_Witness ==
    /\ battleYear = 88 * Scale
    /\ Len(spawned) = 1
    /\ Len(beams) = 2
    /\ beams[1].color = "ff3333"
    /\ beams[2].color = "33ff33"

\* C19: one update lowers the opacity of every beam by 0.05 exactly once,
\* in a war or not, and removes exactly the beams whose opacity is then
\* 0 or less, so that no such beam outlives the update
C19_FadeOnce ==
    [][/\ beams' = SelectSeq(FadedOnce(beams \o spawned'), Alive)
       /\ \A i \in 1..Len(beams') : beams'[i].opacity > 0]_vars
\* outside every war one of two beams has been removed, the other is alive
C19_Witness ==
    /\ quiet > 0
    /\ drainFrom = 2
    /\ Len(beams) = 1
    /\ spawned = <<>>

\* C20: once the year has been outside every war for 16 updates in a row
\* there is no beam, and there is none for as long as it stays outside
C20_DrainsInSixteen == quiet >= FadeTicks => beams = <<>>
C20_Witness ==
    /\ quiet > FadeTicks
    /\ drainFrom = 2
    /\ beams = <<>>


----------------------------------------------------------------------------
(* The frame: order of update() and its consumers *)

\* C21: in every frame update() has run before the scene reads the timeline:
\* the orbit and the BattleManager both receive the currentYear that the
\* frame's update() produced, and the orbit moves by isMoving() as it is
\* after that update()
C21_ConsumersSeeFreshYear ==
    [][frame =>
        /\ lastUpdateYear' = currentYear'
        /\ battleYear' = currentYear'
        /\ isMoving' =>
              moonOrbitAngle' =
                  JsRem(moonOrbitAngle + currentYear' - lastUpdateYear, FullCircle)
        /\ ~isMoving' => moonOrbitAngle' = moonOrbitAngle]_vars
\* a frame that moved the year, after which the orbit has turned and the
\* BattleManager has spawned a beam for that year
C21_Witness ==
    /\ WasUpdate
    /\ isMoving
    /\ lastUpdateYear = currentYear
    /\ battleYear = currentYear
    /\ moonOrbitAngle # 0
    /\ Len(spawned) = 1

----------------------------------------------------------------------------
(* TimeController: ownership of the timeline, the transition flag *)

\* C22: targetYear, currentYear, lastYear and isTransitioning change only
\* inside handleScroll, jumpToYear or update; no handler of main.ts writes
\* them
C22_OnlyControllerWrites ==
    [][<<targetYear, currentYear, lastYear, isTransitioning>>' #
           <<targetYear, currentYear, lastYear, isTransitioning>>
          => lastOp' \in {"scroll", "jump", "update"}]_vars

----------------------------------------------------------------------------
(* BattleManager: the war in force *)

\* the wars whose closed interval holds the year
WarsHolding(year) ==
    {i \in 1..Len(WARS) : WARS[i].start <= year /\ year <= WARS[i].end}

\* C24: the war an update uses is the first of the table whose closed
\* interval holds the year; where two wars hold it (88.0) the earlier one
\* gives the colour, and one update spawns at most one beam
C24_FirstWarInTableOrder ==
    battleYear # -1 =>
        /\ Len(spawned) <= 1
        /\ Len(spawned) = 1 =>
              /\ WarsHolding(battleYear) # {}
              /\ \A i \in WarsHolding(battleYear) :
                    (\A j \in WarsHolding(battleYear) : i <= j)
                        => spawned[1].color = WARS[i].color
C24_Witness ==
    /\ battleYear = 88 * Scale
    /\ Cardinality(WarsHolding(battleYear)) = 2
    /\ Len(spawned) = 1
    /\ spawned[1].color = "33ff33"

----------------------------------------------------------------------------
(* TemporalLayer: update *)

----------------------------------------------------------------------------
(* TimeController: the fresh controller, zero scroll, settling *)

\* C26: as long as neither handleScroll nor jumpToYear has been called,
\* inTransition() is false at every wall-clock time
C26_FreshNotInTransition == lastCallTime = -1 => ~inTransition

\* C27: handleScroll(0) leaves targetYear as it was
C27_ZeroScrollKeepsTarget ==
    (WasScroll /\ lastArg = 0) => targetYear = preTarget

\* C28: once no further input arrives and update() keeps being called,
\* isTransitioning becomes false and stays false
C28_FlagSettles == <>[](~isTransitioning)

----------------------------------------------------------------------------
(* BattleManager: number of beams *)

\* C29: there are never more than 16 beams, neither after an update nor
\* inside one between the spawn and the cleanup, however long the year
\* stays inside a war
C29_AtMostSixteenBeams ==
    /\ [](Len(beams) <= 16)
    /\ [][Len(beams) + Len(spawned') <= 16]_vars
\* fifteen beams alive and a sixteenth just spawned
C29_Witness ==
    /\ Len(beams) = 15
    /\ Len(spawned) = 1
    /\ beams[1].opacity = opacityStep
    /\ beams[15].opacity = initialOpacity - opacityStep

----------------------------------------------------------------------------
(* SceneManager: the orbit as a function of the year *)

====
